---- MODULE Spec2Model ----
(***************************************************************************)
(* Itinerary recalculation engine of the trip planner (src/app.js).        *)
(*                                                                         *)
(* Strings the code parses (times, stay durations) are sequences of        *)
(* one-character strings, so that split, Number, parseFloat, parseInt and  *)
(* padStart are modelled by what they do.  Identifiers the code only       *)
(* compares or concatenates (day ids, stop ids, modes) are TLA+ strings.   *)
(* JavaScript numbers are non-negative integers plus the value NaN;        *)
(* arithmetic is exact (see Round).                                        *)
(***************************************************************************)
EXTENDS Integers, Sequences, FiniteSets, TLC

(***************************************************************************)
(* Bounds of the model.                                                    *)
(***************************************************************************)
\* number of user edits explored from the initial page load
MaxEdits == 2

(***************************************************************************)
(* JavaScript values.                                                      *)
(***************************************************************************)
\* NaN, kept apart from every minute count (which are all >= 0)
NaN == -1

\* null for string-valued fields (actualDepTime)
NullStr == <<"null">>

\* null for object-valued fields (nextStop)
NullObj == [null |-> TRUE]

JsAdd(a, b) == IF a = NaN \/ b = NaN THEN NaN ELSE a + b

JsMul(a, b) == IF a = NaN \/ b = NaN THEN NaN ELSE a * b

\* Math.floor(a / b) for b > 0
FloorDiv(a, b) == IF a = NaN THEN NaN ELSE a \div b

\* a % b for a >= 0, b > 0
JsMod(a, b) == IF a = NaN THEN NaN ELSE a % b

DigitChars == <<"0", "1", "2", "3", "4", "5", "6", "7", "8", "9">>

IsDigit(c) == \E i \in 1..10 : DigitChars[i] = c

DigitVal(c) == (CHOOSE i \in 1..10 : DigitChars[i] = c) - 1

\* value of a sequence of digit characters (0 for the empty sequence)
RECURSIVE DigitsVal(_)
DigitsVal(s) ==
  IF s = <<>> THEN 0
  ELSE 10 * DigitsVal(SubSeq(s, 1, Len(s) - 1)) + DigitVal(s[Len(s)])

\* Number.prototype.toString of a non-negative integer or NaN
RECURSIVE NumToString(_)
NumToString(n) ==
  IF n = NaN THEN <<"N", "a", "N">>
  ELSE IF n < 10 THEN <<DigitChars[n + 1]>>
  ELSE NumToString(n \div 10) \o <<DigitChars[(n % 10) + 1]>>

\* String.prototype.padStart(2, "0")
PadStart2(s) == IF Len(s) >= 2 THEN s ELSE IF Len(s) = 1 THEN <<"0">> \o s ELSE <<"0", "0">>

\* Number(str) for a string of the model's alphabet: "" is 0, digits are
\* their value, anything else is NaN
Number(s) == IF \A i \in 1..Len(s) : IsDigit(s[i]) THEN DigitsVal(s) ELSE NaN

\* String.prototype.split(":")
RECURSIVE SplitColon(_)
SplitColon(s) ==
  IF \A i \in 1..Len(s) : s[i] # ":" THEN <<s>>
  ELSE LET p == CHOOSE i \in 1..Len(s) : s[i] = ":" /\ \A j \in 1..(i - 1) : s[j] # ":"
       IN <<SubSeq(s, 1, p - 1)>> \o SplitColon(SubSeq(s, p + 1, Len(s)))

\* String.prototype.includes(sub)
Includes(s, sub) ==
  \E i \in 1..(Len(s) - Len(sub) + 1) : SubSeq(s, i, i + Len(sub) - 1) = sub

\* length of the longest prefix of s made of digits
RECURSIVE DigitRun(_)
DigitRun(s) == IF s = <<>> \/ ~IsDigit(s[1]) THEN 0 ELSE 1 + DigitRun(Tail(s))

\* leading white space is skipped by parseInt and parseFloat
RECURSIVE TrimStart(_)
TrimStart(s) == IF s # <<>> /\ s[1] = " " THEN TrimStart(Tail(s)) ELSE s

\* parseInt(s): the leading run of digits, NaN when there is none
parseInt(s) ==
  LET t == TrimStart(s)
      n == DigitRun(t)
  IN IF n = 0 THEN NaN ELSE DigitsVal(SubSeq(t, 1, n))

RECURSIVE Pow10(_)
Pow10(k) == IF k = 0 THEN 1 ELSE 10 * Pow10(k - 1)

\* parseFloat(s) as the pair (num, den) with value num/den: the leading
\* digits, then an optional "." and digits; NaN when no digit is read
parseFloat(s) ==
  LET t  == TrimStart(s)
      n  == DigitRun(t)
      r  == SubSeq(t, n + 1, Len(t))
      f  == IF r # <<>> /\ r[1] = "." THEN DigitRun(Tail(r)) ELSE 0
  IN IF n = 0 /\ f = 0 THEN [num |-> NaN, den |-> 1]
     ELSE [num |-> DigitsVal(SubSeq(t, 1, n)) * Pow10(f) + DigitsVal(SubSeq(r, 2, f + 1)),
           den |-> Pow10(f)]

\* Math.floor in the place of Math.round
Round_floor(num, den) == IF num = NaN THEN NaN ELSE num \div den

\* Math.round(num / den): the nearest integer, halves going up
Round(num, den) == IF num = NaN THEN NaN ELSE (2 * num + den) \div (2 * den)

(***************************************************************************)
(* Global helpers (src/app.js, section 1).                                 *)
(***************************************************************************)
timeToMinutes(t) ==
  IF t = <<>> THEN 0
  ELSE LET parts == SplitColon(t)
           h == Number(parts[1])
           m == IF Len(parts) >= 2 THEN Number(parts[2]) ELSE NaN
       IN JsAdd(JsMul(h, 60), m)

\* minutesToTimeStr without the reduction of the hour
minutesToTimeStr_noWrap(m) ==
  PadStart2(NumToString(FloorDiv(m, 60))) \o <<":">> \o PadStart2(NumToString(JsMod(m, 60)))

minutesToTimeStr(m) ==
  LET h0  == FloorDiv(m, 60)
      min == JsMod(m, 60)
      h   == JsMod(h0, 24)
  IN PadStart2(NumToString(h)) \o <<":">> \o PadStart2(NumToString(min))

STR_DASH == <<"-">>

STR_OVERNIGHT == <<"O", "v", "e", "r", "n", "i", "g", "h", "t">>

parseStayDuration(s) ==
  IF s = <<>> \/ s = STR_DASH \/ s = STR_OVERNIGHT THEN 0
  ELSE IF Includes(s, <<"h", "r">>)
       THEN LET f == parseFloat(s)
            IN IF f.num = NaN THEN NaN ELSE (f.num * 60) \div f.den
  ELSE IF Includes(s, <<"m", "i", "n">>) THEN parseInt(s)
  ELSE 0

(***************************************************************************)
(* Reference data.  Coordinates are in units of 0.0001 degree, distances   *)
(* in units of 0.1 km (the one decimal toFixed(1) keeps).                  *)
(***************************************************************************)
SHINJUKU == [name |-> "Shinjuku", lat |-> 356895, lon |-> 1396917]

TOKYO_TOWER ==
  [name |-> "Tokyo Tower", lat |-> 356586, lon |-> 1397454,
   ticket |-> [adult |-> 1200, child |-> 700], desc |-> "Main deck"]

ZOJOJI == [name |-> "Zojoji", lat |-> 356574, lon |-> 1397482]

ASAKUSA ==
  [name |-> "Asakusa", lat |-> 357148, lon |-> 1397967,
   desc |-> "Sensoji", mapCode |-> "722 522"]

HAKONE ==
  [name |-> "Hakone", lat |-> 352324, lon |-> 1391069,
   ticket |-> [adult |-> 2000, child |-> 1000]]

\* The haversine formula of getDistanceFromLatLonInKm evaluated (in IEEE
\* double arithmetic, R = 6371, toFixed(1)) on every ordered pair of the
\* reference coordinates: <<lat1, lon1, lat2, lon2, tenths of km>>.
HaversineTable ==
  { <<356895, 1396917, 356895, 1396917, 0>>,   <<356895, 1396917, 356586, 1397454, 59>>,
    <<356895, 1396917, 356574, 1397482, 62>>,  <<356895, 1396917, 357148, 1397967, 99>>,
    <<356895, 1396917, 352324, 1391069, 734>>, <<356586, 1397454, 356895, 1396917, 59>>,
    <<356586, 1397454, 356586, 1397454, 0>>,   <<356586, 1397454, 356574, 1397482, 3>>,
    <<356586, 1397454, 357148, 1397967, 78>>,  <<356586, 1397454, 352324, 1391069, 748>>,
    <<356574, 1397482, 356895, 1396917, 62>>,  <<356574, 1397482, 356586, 1397454, 3>>,
    <<356574, 1397482, 356574, 1397482, 0>>,   <<356574, 1397482, 357148, 1397967, 77>>,
    <<356574, 1397482, 352324, 1391069, 749>>, <<357148, 1397967, 356895, 1396917, 99>>,
    <<357148, 1397967, 356586, 1397454, 78>>,  <<357148, 1397967, 356574, 1397482, 77>>,
    <<357148, 1397967, 357148, 1397967, 0>>,   <<357148, 1397967, 352324, 1391069, 823>>,
    <<352324, 1391069, 356895, 1396917, 734>>, <<352324, 1391069, 356586, 1397454, 748>>,
    <<352324, 1391069, 356574, 1397482, 749>>, <<352324, 1391069, 357148, 1397967, 823>>,
    <<352324, 1391069, 352324, 1391069, 0>> }

\* the values of the function between the reference stops and six other
\* points: the equator at the prime meridian, the north pole, Sydney,
\* London and the two sides of the antimeridian
HaversineProbeTable ==
  {
    <<356895, 1396917, 0, 0, 142629>>, <<356895, 1396917, 900000, 0, 60391>>,
    <<356895, 1396917, -338688, 1512093, 78266>>, <<356895, 1396917, 515074, -1278, 95587>>,
    <<356895, 1396917, 0, 1799999, 57522>>, <<356895, 1396917, 0, -1799999, 57522>>,
    <<356586, 1397454, 0, 0, 142688>>, <<356586, 1397454, 900000, 0, 60425>>,
    <<356586, 1397454, -338688, 1512093, 78224>>, <<356586, 1397454, 515074, -1278, 95638>>,
    <<356586, 1397454, 0, 1799999, 57463>>, <<356586, 1397454, 0, -1799999, 57463>>,
    <<356574, 1397482, 0, 0, 142691>>, <<356574, 1397482, 900000, 0, 60426>>,
    <<356574, 1397482, -338688, 1512093, 78222>>, <<356574, 1397482, 515074, -1278, 95640>>,
    <<356574, 1397482, 0, 1799999, 57460>>, <<356574, 1397482, 0, -1799999, 57460>>,
    <<357148, 1397967, 0, 0, 142691>>, <<357148, 1397967, 900000, 0, 60362>>,
    <<357148, 1397967, -338688, 1512093, 78277>>, <<357148, 1397967, 515074, -1278, 95600>>,
    <<357148, 1397967, 0, 1799999, 57460>>, <<357148, 1397967, 0, -1799999, 57460>>,
    <<352324, 1391069, 0, 0, 142475>>, <<352324, 1391069, 900000, 0, 60899>>,
    <<352324, 1391069, -338688, 1512093, 77862>>, <<352324, 1391069, 515074, -1278, 95837>>,
    <<352324, 1391069, 0, 1799999, 57676>>, <<352324, 1391069, 0, -1799999, 57676>>,
    <<0, 0, 356895, 1396917, 142629>>, <<0, 0, 356586, 1397454, 142688>>,
    <<0, 0, 356574, 1397482, 142691>>, <<0, 0, 357148, 1397967, 142691>>,
    <<0, 0, 352324, 1391069, 142475>>, <<0, 0, 0, 0, 0>>,
    <<0, 0, 900000, 0, 100075>>, <<0, 0, -338688, 1512093, 151995>>,
    <<0, 0, 515074, -1278, 57274>>, <<0, 0, 0, 1799999, 200151>>,
    <<0, 0, 0, -1799999, 200151>>, <<900000, 0, 356895, 1396917, 60391>>,
    <<900000, 0, 356586, 1397454, 60425>>, <<900000, 0, 356574, 1397482, 60426>>,
    <<900000, 0, 357148, 1397967, 60362>>, <<900000, 0, 352324, 1391069, 60899>>,
    <<900000, 0, 0, 0, 100075>>, <<900000, 0, 900000, 0, 0>>,
    <<900000, 0, -338688, 1512093, 137736>>, <<900000, 0, 515074, -1278, 42802>>,
    <<900000, 0, 0, 1799999, 100075>>, <<900000, 0, 0, -1799999, 100075>>,
    <<-338688, 1512093, 356895, 1396917, 78266>>, <<-338688, 1512093, 356586, 1397454, 78224>>,
    <<-338688, 1512093, 356574, 1397482, 78222>>, <<-338688, 1512093, 357148, 1397967, 78277>>,
    <<-338688, 1512093, 352324, 1391069, 77862>>, <<-338688, 1512093, 0, 0, 151995>>,
    <<-338688, 1512093, 900000, 0, 137736>>, <<-338688, 1512093, -338688, 1512093, 0>>,
    <<-338688, 1512093, 515074, -1278, 169939>>, <<-338688, 1512093, 0, 1799999, 48156>>,
    <<-338688, 1512093, 0, -1799999, 48156>>, <<515074, -1278, 356895, 1396917, 95587>>,
    <<515074, -1278, 356586, 1397454, 95638>>, <<515074, -1278, 356574, 1397482, 95640>>,
    <<515074, -1278, 357148, 1397967, 95600>>, <<515074, -1278, 352324, 1391069, 95837>>,
    <<515074, -1278, 0, 0, 57274>>, <<515074, -1278, 900000, 0, 42802>>,
    <<515074, -1278, -338688, 1512093, 169939>>, <<515074, -1278, 515074, -1278, 0>>,
    <<515074, -1278, 0, 1799999, 142877>>, <<515074, -1278, 0, -1799999, 142877>>,
    <<0, 1799999, 356895, 1396917, 57522>>, <<0, 1799999, 356586, 1397454, 57463>>,
    <<0, 1799999, 356574, 1397482, 57460>>, <<0, 1799999, 357148, 1397967, 57460>>,
    <<0, 1799999, 352324, 1391069, 57676>>, <<0, 1799999, 0, 0, 200151>>,
    <<0, 1799999, 900000, 0, 100075>>, <<0, 1799999, -338688, 1512093, 48156>>,
    <<0, 1799999, 515074, -1278, 142877>>, <<0, 1799999, 0, 1799999, 0>>,
    <<0, 1799999, 0, -1799999, 0>>, <<0, -1799999, 356895, 1396917, 57522>>,
    <<0, -1799999, 356586, 1397454, 57463>>, <<0, -1799999, 356574, 1397482, 57460>>,
    <<0, -1799999, 357148, 1397967, 57460>>, <<0, -1799999, 352324, 1391069, 57676>>,
    <<0, -1799999, 0, 0, 200151>>, <<0, -1799999, 900000, 0, 100075>>,
    <<0, -1799999, -338688, 1512093, 48156>>, <<0, -1799999, 515074, -1278, 142877>>,
    <<0, -1799999, 0, 1799999, 0>>, <<0, -1799999, 0, -1799999, 0>> }

\* the value of the function on every tabulated pair of points
HaversineValues == HaversineTable \cup HaversineProbeTable

\* a sum whose first term is not squared: NaN on a leg that goes south
getDistanceFromLatLonInKm_unsquared(lat1, lon1, lat2, lon2) ==
  IF lat2 < lat1 THEN NaN
  ELSE (CHOOSE e \in HaversineValues :
          e[1] = lat1 /\ e[2] = lon1 /\ e[3] = lat2 /\ e[4] = lon2)[5]

getDistanceFromLatLonInKm(lat1, lon1, lat2, lon2) ==
  (CHOOSE e \in HaversineValues :
     e[1] = lat1 /\ e[2] = lon1 /\ e[3] = lat2 /\ e[4] = lon2)[5]

\* window.RAW_KML_DATA: the itineraries a session can be loaded with
RawKmlTokyo ==
  << [dayId |-> "d1", title |-> "Tokyo", spots |-> <<SHINJUKU, TOKYO_TOWER, ZOJOJI>>],
     [dayId |-> "d2", title |-> "To Hakone", spots |-> <<ASAKUSA, HAKONE>>] >>

RawKmlHakone ==
  << [dayId |-> "d1", title |-> "From Hakone", spots |-> <<HAKONE, SHINJUKU>>],
     [dayId |-> "d2", title |-> "Tokyo", spots |-> <<ZOJOJI, TOKYO_TOWER, ASAKUSA>>] >>

RawKmlChoices == {RawKmlTokyo, RawKmlHakone}

(***************************************************************************)
(* useItineraryCalculation (src/app.js, section 2).                        *)
(***************************************************************************)
STR_0900 == <<"0", "9", ":", "0", "0">>

STR_1_5_HR == <<"1", ".", "5", " ", "h", "r">>

\* map[key] || dflt for a map of strings
OrDefault(map, key, dflt) ==
  IF key \in DOMAIN map /\ map[key] # <<>> THEN map[key] ELSE dflt

\* an id without the day
SpotId_noDay(dayId, idx) == "s" \o ToString(idx)

\* `${day.dayId}-s${idx}`
SpotId(dayId, idx) == dayId \o "-s" \o ToString(idx)

\* StartMinutes that always starts the day at the default
StartMinutes_defaultOnly(dayId, dayStartTimes) == timeToMinutes(STR_0900)

\* StartMinutes that reads whichever start time was stored first
StartMinutes_anyKey(dayId, dayStartTimes) ==
  IF DOMAIN dayStartTimes = {} THEN timeToMinutes(STR_0900)
  ELSE timeToMinutes(OrDefault(dayStartTimes, CHOOSE k \in DOMAIN dayStartTimes : TRUE, STR_0900))

\* let currentMinutes = timeToMinutes(dayStartTimes[day.dayId] || "09:00")
StartMinutes(dayId, dayStartTimes) ==
  timeToMinutes(OrDefault(dayStartTimes, dayId, STR_0900))

\* StayStr with a default of one hour
StayStr_oneHour(spotId, stays) == OrDefault(stays, spotId, <<"1", " ", "h", "r">>)

\* const stayStr = stays[spotId] || "1.5 hr"
StayStr(spotId, stays) == OrDefault(stays, spotId, STR_1_5_HR)

\* if (actualDepartures[spotId]) ... isDeparted = true
IsDeparted(spotId, actualDepartures) ==
  spotId \in DOMAIN actualDepartures /\ actualDepartures[spotId] # <<>>

\* DepartureMinutes that never lets a stop be left before it is reached
DepartureMinutes_notBeforeArrival(spotId, currentMinutes, stayStr, actualDepartures) ==
  IF spotId \in DOMAIN actualDepartures /\ actualDepartures[spotId] # <<>>
  THEN LET t == timeToMinutes(actualDepartures[spotId])
       IN IF t < currentMinutes THEN currentMinutes ELSE t
  ELSE JsAdd(currentMinutes, parseStayDuration(stayStr))

\* DepartureMinutes that takes the stay off the clock
DepartureMinutes_subtractsStay(spotId, currentMinutes, stayStr, actualDepartures) ==
  IF spotId \in DOMAIN actualDepartures /\ actualDepartures[spotId] # <<>>
  THEN timeToMinutes(actualDepartures[spotId])
  ELSE currentMinutes - parseStayDuration(stayStr)

\* the if/else that sets departureMinutes
DepartureMinutes(spotId, currentMinutes, stayStr, actualDepartures) ==
  IF IsDeparted(spotId, actualDepartures)
  THEN timeToMinutes(actualDepartures[spotId])
  ELSE JsAdd(currentMinutes, parseStayDuration(stayStr))

\* LegMode that looks the mode up under the id of the next stop
LegMode_nextId(dayId, idx, transportModes) ==
  LET spotId == SpotId(dayId, idx + 1)
  IN IF spotId \in DOMAIN transportModes THEN transportModes[spotId] ELSE "car"

\* const mode = transportModes[spotId] || "car"
LegMode(dayId, idx, transportModes) ==
  LET spotId == SpotId(dayId, idx)
  IN IF spotId \in DOMAIN transportModes THEN transportModes[spotId] ELSE "car"

\* TravelMinutes without the fixed overhead of a car leg
TravelMinutes_noOverhead(dist, mode) ==
  Round(dist * 6, IF mode = "car" THEN 40 ELSE 4)

\* TravelMinutes with the overhead added whatever the mode
TravelMinutes_overheadAlways(dist, mode) ==
  Round(dist * 6, IF mode = "car" THEN 40 ELSE 4) + 10

\* Math.round((dist / speed) * 60), plus 10 for a car; dist in 0.1 km
TravelMinutes(dist, mode) ==
  LET speed == IF mode = "car" THEN 40 ELSE 4
      travelMinutes == Round(dist * 6, speed)
  IN IF mode = "car" THEN travelMinutes + 10 ELSE travelMinutes

\* the conditional that formats driveTime and walkTime
DurationStr(mins) ==
  IF mins > 60
  THEN NumToString(mins \div 60) \o <<"h">> \o NumToString(mins % 60) \o <<"m">>
  ELSE NumToString(mins) \o <<"m">>

\* a literal whose two display times are both the travel time of the
\* active mode
NextStopInfo_activeMode(spot, nextSpot, dist, mode) ==
  [name      |-> nextSpot.name,
   distance  |-> dist,
   driveTime |-> DurationStr(TravelMinutes(dist, mode)),
   walkTime  |-> DurationStr(TravelMinutes(dist, mode)),
   navLink   |-> [origin      |-> <<spot.lat, spot.lon>>,
                  destination |-> <<nextSpot.lat, nextSpot.lon>>,
                  travelmode  |-> IF mode = "car" THEN "driving" ELSE "walking"]]

\* a literal whose link leads from the next stop back to this one
NextStopInfo_linkReversed(spot, nextSpot, dist, mode) ==
  [name      |-> nextSpot.name,
   distance  |-> dist,
   driveTime |-> DurationStr(Round(dist * 6, 40) + 10),
   walkTime  |-> DurationStr(Round(dist * 6, 4)),
   navLink   |-> [origin      |-> <<nextSpot.lat, nextSpot.lon>>,
                  destination |-> <<spot.lat, spot.lon>>,
                  travelmode  |-> IF mode = "car" THEN "driving" ELSE "walking"]]

\* the nextStopInfo object literal
NextStopInfo(spot, nextSpot, dist, mode) ==
  [name      |-> nextSpot.name,
   distance  |-> dist,
   driveTime |-> DurationStr(Round(dist * 6, 40) + 10),
   walkTime  |-> DurationStr(Round(dist * 6, 4)),
   navLink   |-> [origin      |-> <<spot.lat, spot.lon>>,
                  destination |-> <<nextSpot.lat, nextSpot.lon>>,
                  travelmode  |-> IF mode = "car" THEN "driving" ELSE "walking"]]

\* a bound that stops one stop early
HasNext_early(day, idx) == idx < Len(day.spots) - 2

\* idx < day.spots.length - 1
HasNext(day, idx) == idx < Len(day.spots) - 1

\* a literal that copies the key, the name and the coordinates by hand
Spread_namedOnly(obj, fields) ==
  [f \in ((DOMAIN obj) \cap {"dayId", "name", "lat", "lon"}) \cup (DOMAIN fields) |->
     IF f \in DOMAIN fields THEN fields[f] ELSE obj[f]]

\* { ...obj, ...fields }: the fields of obj, those of fields taking precedence
Spread(obj, fields) ==
  [f \in (DOMAIN obj) \cup (DOMAIN fields) |->
     IF f \in DOMAIN fields THEN fields[f] ELSE obj[f]]

\* One iteration of day.spots.map for the stop at 0-based position idx,
\* entered with the running clock currentMinutes: the object it returns
\* (out) with the locals it computes, the clock it entered with (arrival)
\* and the clock it leaves to the next iteration (clock).
SpotStep(day, idx, currentMinutes, actualDepartures, stays, transportModes) ==
  LET spot     == day.spots[idx + 1]
      spotId   == SpotId(day.dayId, idx)
      stayStr  == StayStr(spotId, stays)
      departed == IsDeparted(spotId, actualDepartures)
      departureMinutes ==
        DepartureMinutes(spotId, currentMinutes, stayStr, actualDepartures)
      hasNext  == HasNext(day, idx)
      nextSpot == day.spots[idx + 2]
      dist     == getDistanceFromLatLonInKm(spot.lat, spot.lon, nextSpot.lat, nextSpot.lon)
      mode     == LegMode(day.dayId, idx, transportModes)
      travelMinutes == TravelMinutes(dist, mode)
      nextClock == IF hasNext THEN JsAdd(departureMinutes, travelMinutes) ELSE currentMinutes
  IN [out |-> Spread(spot,
              [id              |-> spotId,
               time            |-> minutesToTimeStr(currentMinutes),
               stay            |-> stayStr,
               isDeparted      |-> departed,
               actualDepTime   |-> IF departed THEN actualDepartures[spotId] ELSE NullStr,
               nextStop        |-> IF hasNext THEN NextStopInfo(spot, nextSpot, dist, mode)
                                   ELSE NullObj,
               nextArrivalTime |-> IF hasNext THEN minutesToTimeStr(nextClock) ELSE <<>>,
               mapcodeDisplay  |-> IF "mapCode" \in DOMAIN spot THEN spot.mapCode ELSE "GPS",
               gmapLink        |-> [query |-> <<spot.lat, spot.lon>>],
               weather         |-> "sunny",
               temp            |-> "10C",
               ticket          |-> IF "ticket" \in DOMAIN spot THEN spot.ticket ELSE NullObj]),
      arrival          |-> currentMinutes,
      departureMinutes |-> departureMinutes,
      travelMinutes    |-> IF hasNext THEN travelMinutes ELSE 0,
      clock            |-> nextClock]

\* day.spots.map(...) from position idx on
RECURSIVE SpotsFrom(_, _, _, _, _, _)
SpotsFrom(day, idx, currentMinutes, actualDepartures, stays, transportModes) ==
  IF idx >= Len(day.spots) THEN <<>>
  ELSE LET step == SpotStep(day, idx, currentMinutes, actualDepartures, stays, transportModes)
       IN <<step>> \o SpotsFrom(day, idx + 1, step.clock, actualDepartures, stays, transportModes)

\* a body that gives up on a day whose start time does not parse
DayTrace_rejectsNaN(day, dayStartTimes, actualDepartures, stays, transportModes) ==
  IF StartMinutes(day.dayId, dayStartTimes) = NaN THEN <<>>
  ELSE SpotsFrom(day, 0, StartMinutes(day.dayId, dayStartTimes),
                 actualDepartures, stays, transportModes)

\* the body of rawKml.map for one day, with the locals of every iteration
DayTrace(day, dayStartTimes, actualDepartures, stays, transportModes) ==
  SpotsFrom(day, 0, StartMinutes(day.dayId, dayStartTimes),
            actualDepartures, stays, transportModes)

\* the value the hook returns
useItineraryCalculation(rawKml, dayStartTimes, actualDepartures, stays, transportModes) ==
  [d \in 1..Len(rawKml) |->
     LET trace == DayTrace(rawKml[d], dayStartTimes, actualDepartures, stays, transportModes)
     IN Spread(rawKml[d], [spots |-> [k \in 1..Len(trace) |-> trace[k].out]])]

(***************************************************************************)
(* The App component: its state, persistence and handlers (section 4).     *)
(***************************************************************************)
VARIABLES
  rawKml,            \* window.RAW_KML_DATA
  dayStartTimes,     \* useState: dayId -> "HH:MM"
  actualDepartures,  \* useState: stopId -> "HH:MM"
  stays,             \* useState: stopId -> duration string
  transportModes,    \* useState: stopId -> "car" | "walk"
  tripData,          \* the value of the useItineraryCalculation hook
  localStorage,      \* the persisted copies of the four maps
  edits,             \* number of user edits so far
  fnName,            \* helper-function harness: the function applied, "" before
  fnArg,             \* helper-function harness: the argument handed in
  fnRes,             \* helper-function harness: the value returned
  spotTicketCounts,  \* useState: stopId -> [adult, child] ticket counts
  ticketCall,        \* the last updateSpotTicketCount call: [id, type, delta]
  geminiKey,         \* localStorage "gemini_api_key" is set
  geminiPc,          \* generateGeminiContent: position of the call
  geminiI,           \* generateGeminiContent: the loop counter i
  geminiLog,         \* generateGeminiContent: the responses to its requests
  geminiResult,      \* generateGeminiContent: the value returned or thrown
  swPhase,           \* service worker: its state in the life cycle
  cacheStorage,      \* the origin's caches in creation order: [name, urls]
  swPending,         \* activate: the caches.delete calls not yet settled
  fetchLog,          \* fetch handler: [request, from] of each response
  netLog             \* fetch handler: the requests it sent to the network

vars == <<rawKml, dayStartTimes, actualDepartures, stays, transportModes,
          tripData, localStorage, edits, fnName, fnArg, fnRes,
          spotTicketCounts, ticketCall,
          geminiKey, geminiPc, geminiI, geminiLog, geminiResult,
          swPhase, cacheStorage, swPending, fetchLog, netLog>>

overrides == <<dayStartTimes, actualDepartures, stays, transportModes>>

harness == <<fnName, fnArg, fnRes>>

tickets == <<spotTicketCounts, ticketCall>>

gemini == <<geminiKey, geminiPc, geminiI, geminiLog, geminiResult>>

sw == <<swPhase, cacheStorage, swPending, fetchLog, netLog>>

\* the state outside the itinerary and the helper harness
aux == <<tickets, gemini, sw>>

\* no updateSpotTicketCount call yet
NoCall == [id |-> "", type |-> "", delta |-> 0]

\* the ticket counts of a session nothing was stored for
TicketsIdle ==
  /\ spotTicketCounts = [x \in {} |-> [adult |-> 2, child |-> 2]]
  /\ ticketCall = NoCall

\* no call of generateGeminiContent under way
GeminiIdle ==
  /\ geminiPc = "idle"
  /\ geminiI = 0
  /\ geminiLog = <<>>
  /\ geminiResult = ""

\* no service worker registered and no cache
SwIdle ==
  /\ swPhase = "none"
  /\ cacheStorage = <<>>
  /\ swPending = {}
  /\ fetchLog = <<>>
  /\ netLog = <<>>

AuxIdle == TicketsIdle /\ geminiKey = FALSE /\ GeminiIdle /\ SwIdle

\* { ...p, [id]: val }
Put(map, key, val) ==
  [x \in (DOMAIN map) \cup {key} |-> IF x = key THEN val ELSE map[x]]

\* delete newState[id]
Delete(map, key) == [x \in (DOMAIN map) \ {key} |-> map[x]]

EmptyMap == [x \in {} |-> <<>>]

\* JSON.stringify of a map of strings: its entries
JSONstringify(map) == {<<k, map[k]>> : k \in DOMAIN map}

\* JSON.parse of such a text
JSONparse(text) ==
  [k \in {e[1] : e \in text} |-> (CHOOSE e \in text : e[1] = k)[2]]

\* persistence effects of which the one of the transport modes never runs
Persisted_noModes(dst, ad, st, tm) ==
  [start_times |-> JSONstringify(dst),
   departures  |-> JSONstringify(ad),
   stays       |-> JSONstringify(st),
   modes       |-> JSONstringify(EmptyMap)]

\* the four persistence effects
Persisted(dst, ad, st, tm) ==
  [start_times |-> JSONstringify(dst),
   departures  |-> JSONstringify(ad),
   stays       |-> JSONstringify(st),
   modes       |-> JSONstringify(tm)]

\* `${hours.toString().padStart(2, "0")}:${minutes.toString().padStart(2, "0")}`
ClockStr(hours, minutes) ==
  PadStart2(NumToString(hours)) \o <<":">> \o PadStart2(NumToString(minutes))

\* values an <input type="time"> hands to onChange: empty when cleared
StartTimeInputs == {<<>>, ClockStr(7, 30), ClockStr(23, 45)}

\* the wall clock readings (hours, minutes) at which departures are confirmed
NowChoices == {<<10, 30>>, <<0, 5>>}

\* window.STAY_OPTIONS: the choices of the stay selector
STAY_OPTIONS ==
  { <<"2", " ", "h", "r">>, <<"4", "5", " ", "m", "i", "n">>, STR_OVERNIGHT }

DayIds == {rawKml[d].dayId : d \in 1..Len(rawKml)}

\* the ids of the rendered stops (spot.id)
SpotIds ==
  UNION {{tripData[d].spots[k].id : k \in 1..Len(tripData[d].spots)} :
         d \in 1..Len(tripData)}

\* the ids of the rendered stops that show a next-stop card (spot.nextStop)
LegIds ==
  UNION {{tripData[d].spots[k].id :
            k \in {j \in 1..Len(tripData[d].spots) :
                     tripData[d].spots[j].nextStop # NullObj}} :
         d \in 1..Len(tripData)}

Init ==
  /\ rawKml \in RawKmlChoices
  /\ dayStartTimes = EmptyMap
  /\ actualDepartures = EmptyMap
  /\ stays = EmptyMap
  /\ transportModes = EmptyMap
  /\ tripData = useItineraryCalculation(rawKml, EmptyMap, EmptyMap, EmptyMap, EmptyMap)
  /\ localStorage = Persisted(EmptyMap, EmptyMap, EmptyMap, EmptyMap)
  /\ edits = 0
  /\ fnName = ""
  /\ fnArg = <<>>
  /\ fnRes = 0
  /\ AuxIdle

\* a render whose memo does not list the transport modes among its inputs
Render_staleModes(dst, ad, st, tm) ==
  /\ tripData' = IF <<dst, ad, st>> = <<dayStartTimes, actualDepartures, stays>>
                 THEN tripData
                 ELSE useItineraryCalculation(rawKml, dst, ad, st, tm)
  /\ localStorage' = Persisted(dst, ad, st, tm)
  /\ UNCHANGED <<rawKml, harness, aux>>

\* the render that follows a state update: the hook's value and the effects
Render(dst, ad, st, tm) ==
  /\ tripData' = useItineraryCalculation(rawKml, dst, ad, st, tm)
  /\ localStorage' = Persisted(dst, ad, st, tm)
  /\ UNCHANGED <<rawKml, harness, aux>>

handleDayStartTimeChange(id, val) ==
  /\ edits < MaxEdits
  /\ edits' = edits + 1
  /\ dayStartTimes' = Put(dayStartTimes, id, val)
  /\ UNCHANGED <<actualDepartures, stays, transportModes>>
  /\ Render(dayStartTimes', actualDepartures, stays, transportModes)

handleStayChangeNew(id, val) ==
  /\ edits < MaxEdits
  /\ edits' = edits + 1
  /\ stays' = Put(stays, id, val)
  /\ UNCHANGED <<dayStartTimes, actualDepartures, transportModes>>
  /\ Render(dayStartTimes, actualDepartures, stays', transportModes)

handleTransportToggle(id) ==
  /\ edits < MaxEdits
  /\ edits' = edits + 1
  /\ transportModes' =
       Put(transportModes, id,
           IF id \in DOMAIN transportModes /\ transportModes[id] = "walk"
           THEN "car" ELSE "walk")
  /\ UNCHANGED <<dayStartTimes, actualDepartures, stays>>
  /\ Render(dayStartTimes, actualDepartures, stays, transportModes')

handleDepartureToggle(id, now) ==
  /\ edits < MaxEdits
  /\ edits' = edits + 1
  /\ actualDepartures' =
       IF id \in DOMAIN actualDepartures /\ actualDepartures[id] # <<>>
       THEN Delete(actualDepartures, id)
       ELSE Put(actualDepartures, id, ClockStr(now[1], now[2]))
  /\ UNCHANGED <<dayStartTimes, stays, transportModes>>
  /\ Render(dayStartTimes, actualDepartures', stays, transportModes)

\* a render that also stores the defaults it resolved into the stay map
Rerender_storesDefaults ==
  /\ stays' = [id \in SpotIds |-> StayStr(id, stays)]
  /\ UNCHANGED <<dayStartTimes, actualDepartures, transportModes, edits>>
  /\ Render(dayStartTimes, actualDepartures, stays', transportModes)

\* a render with unchanged overrides: the hook is invoked again
Rerender ==
  /\ UNCHANGED <<overrides, edits>>
  /\ Render(dayStartTimes, actualDepartures, stays, transportModes)

\* a page load: the four useState initialisers read the persisted copies
Reload ==
  /\ dayStartTimes' = JSONparse(localStorage.start_times)
  /\ actualDepartures' = JSONparse(localStorage.departures)
  /\ stays' = JSONparse(localStorage.stays)
  /\ transportModes' = JSONparse(localStorage.modes)
  /\ UNCHANGED edits
  /\ Render(dayStartTimes', actualDepartures', stays', transportModes')

Next ==
  \/ \E id \in DayIds, val \in StartTimeInputs : handleDayStartTimeChange(id, val)
  \/ \E id \in SpotIds, val \in STAY_OPTIONS : handleStayChangeNew(id, val)
  \/ \E id \in LegIds : handleTransportToggle(id)
  \/ \E id \in SpotIds, now \in NowChoices : handleDepartureToggle(id, now)
  \/ Rerender
  \/ Reload

Spec == Init /\ [][Next]_vars

TypeOK ==
  /\ DOMAIN dayStartTimes \subseteq DayIds
  /\ edits \in 0..MaxEdits

(***************************************************************************)
(* Properties of the derived schedule.                                     *)
(***************************************************************************)
Days == 1..Len(tripData)

Stops(d) == 1..Len(tripData[d].spots)

\* the legs of day d: the positions that have a following stop
Legs(d) == 1..(Len(tripData[d].spots) - 1)

\* the locals of the current render of day d
Trace(d) == DayTrace(rawKml[d], dayStartTimes, actualDepartures, stays, transportModes)

\* the effective departure of a derived stop as a minute of the day, read
\* from the derived stop alone
EffectiveDeparture(spot) ==
  IF spot.isDeparted THEN timeToMinutes(spot.actualDepTime)
  ELSE timeToMinutes(spot.time) + parseStayDuration(spot.stay)

CarLeg(id) == id \notin DOMAIN transportModes \/ transportModes[id] = "car"

WalkLeg(id) == id \in DOMAIN transportModes /\ transportModes[id] = "walk"

\* C1: on every car leg (k, k+1), after any recomputation, the arrival at
\* k+1 is the effective departure of k plus round(distance/40*60) + 10
\* minutes, modulo 1440.
C1_CarLegArrival ==
  \A d \in Days : \A k \in Legs(d) :
    LET spot == tripData[d].spots[k]
    IN CarLeg(spot.id) =>
         timeToMinutes(tripData[d].spots[k + 1].time) =
           (EffectiveDeparture(spot) + Round(spot.nextStop.distance * 6, 40) + 10) % 1440

\* a recomputed schedule with a car leg that is driven past midnight
C1_Witness ==
  /\ edits > 0
  /\ \E d \in Days : \E k \in Legs(d) :
       /\ CarLeg(tripData[d].spots[k].id)
       /\ tripData[d].spots[k].nextStop.distance > 0
       /\ timeToMinutes(tripData[d].spots[k + 1].time) < timeToMinutes(tripData[d].spots[k].time)

\* C2: on every walk leg (k, k+1), after any recomputation, the arrival at
\* k+1 is the effective departure of k plus round(distance/4*60) minutes,
\* modulo 1440, with no overhead.
C2_WalkLegArrival ==
  \A d \in Days : \A k \in Legs(d) :
    LET spot == tripData[d].spots[k]
    IN WalkLeg(spot.id) =>
         timeToMinutes(tripData[d].spots[k + 1].time) =
           (EffectiveDeparture(spot) + Round(spot.nextStop.distance * 6, 4)) % 1440

\* a recomputed schedule with a leg walked past midnight
C2_Witness ==
  /\ edits > 0
  /\ \E d \in Days : \E k \in Legs(d) :
       /\ WalkLeg(tripData[d].spots[k].id)
       /\ tripData[d].spots[k].nextStop.distance > 0
       /\ timeToMinutes(tripData[d].spots[k + 1].time) < timeToMinutes(tripData[d].spots[k].time)

\* the day has a start-time override (an emptied time field counts as none)
HasStartOverride(dayId) ==
  dayId \in DOMAIN dayStartTimes /\ dayStartTimes[dayId] # <<>>

\* C3: the first stop of every day arrives exactly at the day's start-time
\* override, or at "09:00" when the day has none, whatever the other
\* overrides are.
C3_FirstArrival ==
  \A d \in Days :
    tripData[d].spots[1].time =
      IF HasStartOverride(tripData[d].dayId) THEN dayStartTimes[tripData[d].dayId]
      ELSE STR_0900

\* a day with a start-time override whose first stop has another override
C3_Witness ==
  \E d \in Days :
    /\ HasStartOverride(tripData[d].dayId)
    /\ tripData[d].spots[1].time # STR_0900
    /\ \/ tripData[d].spots[1].isDeparted
       \/ tripData[d].spots[1].id \in DOMAIN stays
       \/ tripData[d].spots[1].id \in DOMAIN transportModes

\* the minutes the leg leaving a derived stop takes in its active mode
LegMinutes(spot) ==
  IF CarLeg(spot.id) THEN Round(spot.nextStop.distance * 6, 40) + 10
  ELSE Round(spot.nextStop.distance * 6, 4)

\* C4: a stop with an actual-departure override is departed and its
\* effective departure, to which the next leg is added, is the override in
\* minutes, whatever its arrival time and stay are.
C4_ActualDeparture ==
  \A d \in Days : \A k \in Stops(d) :
    LET spot == tripData[d].spots[k]
    IN spot.id \in DOMAIN actualDepartures =>
         /\ spot.isDeparted
         /\ Trace(d)[k].departureMinutes = timeToMinutes(actualDepartures[spot.id])
         /\ k \in Legs(d) =>
              tripData[d].spots[k + 1].time =
                minutesToTimeStr(timeToMinutes(actualDepartures[spot.id]) + LegMinutes(spot))

\* a stop left before the time it is computed to arrive, with a stay set
C4_Witness ==
  \E d \in Days : \E k \in Legs(d) :
    LET spot == tripData[d].spots[k]
    IN /\ spot.id \in DOMAIN actualDepartures
       /\ spot.id \in DOMAIN stays
       /\ timeToMinutes(actualDepartures[spot.id]) < Trace(d)[k].arrival

\* C5: isDeparted holds exactly for the stops with an actual-departure
\* entry; a stop without one is not departed and leaves at its arrival
\* minutes plus its resolved stay (90 when it has no stay override).
C5_ComputedDeparture ==
  \A d \in Days : \A k \in Stops(d) :
    LET spot == tripData[d].spots[k]
    IN /\ spot.isDeparted <=> spot.id \in DOMAIN actualDepartures
       /\ spot.id \notin DOMAIN actualDepartures =>
            Trace(d)[k].departureMinutes =
              Trace(d)[k].arrival +
                (IF spot.id \in DOMAIN stays THEN parseStayDuration(stays[spot.id]) ELSE 90)

\* a schedule with a departed stop, a stop staying by default and a stop
\* staying by override
C5_Witness ==
  /\ \E d \in Days : \E k \in Stops(d) : tripData[d].spots[k].isDeparted
  /\ \E d \in Days : \E k \in Stops(d) :
       /\ ~tripData[d].spots[k].isDeparted
       /\ tripData[d].spots[k].id \in DOMAIN stays
       /\ parseStayDuration(stays[tripData[d].spots[k].id]) > 0
  /\ \E d \in Days : \E k \in Stops(d) :
       /\ ~tripData[d].spots[k].isDeparted
       /\ tripData[d].spots[k].id \notin DOMAIN stays

(***************************************************************************)
(* Helper functions applied on their own to arbitrary strings.             *)
(***************************************************************************)
StayProbeNumbers ==
  { <<>>,
    <<"1">>,
    <<"1", ".", "5">>,
    <<"4", "5">>,
    <<"0", ".", "5">>,
    <<"2">>,
    <<"3", "0">>,
    <<"x">>,
    <<"9", "0">>,
    <<"1", "0">> }

StayProbeUnits ==
  { <<"h", "r">>,
    <<"m", "i", "n">>,
    <<"h">>,
    <<"h", "o", "u", "r", "s">>,
    <<"m">>,
    <<>> }

\* stay strings: a number or not, a blank or not, a unit or not
StayProbeInputs ==
  {n \o sep \o u : n \in StayProbeNumbers, sep \in {<<>>, <<" ">>}, u \in StayProbeUnits}
    \cup {STR_DASH, STR_OVERNIGHT}

InitFn ==
  /\ rawKml = RawKmlTokyo
  /\ dayStartTimes = EmptyMap
  /\ actualDepartures = EmptyMap
  /\ stays = EmptyMap
  /\ transportModes = EmptyMap
  /\ tripData = useItineraryCalculation(rawKml, EmptyMap, EmptyMap, EmptyMap, EmptyMap)
  /\ localStorage = Persisted(EmptyMap, EmptyMap, EmptyMap, EmptyMap)
  /\ edits = 0
  /\ fnName = ""
  /\ fnArg \in StayProbeInputs
  /\ fnRes = 0
  /\ AuxIdle

\* parseStayDuration(fnArg)
ApplyParseStayDuration ==
  /\ fnName = ""
  /\ fnName' = "parseStayDuration"
  /\ fnRes' = parseStayDuration(fnArg)
  /\ UNCHANGED <<rawKml, overrides, tripData, localStorage, edits, fnArg, aux>>

\* parseStayDuration(stays[spotId] || "1.5 hr") for a stop whose stay is
\* fnArg (has) or that has no stay override
ApplyResolveStay(has) ==
  /\ fnName = ""
  /\ fnArg # <<>>
  /\ fnName' = IF has THEN "resolveStay" ELSE "resolveStayAbsent"
  /\ fnRes' = parseStayDuration(StayStr("d1-s0", IF has THEN Put(EmptyMap, "d1-s0", fnArg)
                                                  ELSE EmptyMap))
  /\ UNCHANGED <<rawKml, overrides, tripData, localStorage, edits, fnArg, aux>>

NextFn ==
  \/ ApplyParseStayDuration
  \/ \E has \in BOOLEAN : ApplyResolveStay(has)

SpecFn == InitFn /\ [][NextFn]_vars

HasSuffix(s, suf) ==
  Len(s) >= Len(suf) /\ SubSeq(s, Len(s) - Len(suf) + 1, Len(s)) = suf

\* the resolution of a stay string as the claim describes it
ClaimedStay(s) ==
  IF s = <<>> \/ s = STR_DASH \/ s = STR_OVERNIGHT THEN 0
  ELSE IF HasSuffix(s, <<"h", "r">>) /\ parseFloat(s).num # NaN
       THEN (parseFloat(s).num * 60) \div parseFloat(s).den
  ELSE IF HasSuffix(s, <<"m", "i", "n">>) /\ parseInt(s) # NaN THEN parseInt(s)
  ELSE 0

\* C6: a stay string ending in "hr" resolves to its number times 60, one
\* ending in "min" to its integer, "-" and "Overnight" to 0, any other
\* string to 0, and a stop without a stay override to 90.
C6_StayResolution ==
  /\ fnName \in {"parseStayDuration", "resolveStay"} => fnRes = ClaimedStay(fnArg)
  /\ fnName = "resolveStayAbsent" => fnRes = 90

(***************************************************************************)
(* Frame properties of a recomputation.                                    *)
(***************************************************************************)
\* map[key] as an optional value
Lookup(map, key) == IF key \in DOMAIN map THEN <<map[key]>> ELSE <<>>

\* C7: switching one stop's leg from car to walk leaves the arrival time,
\* the departed flag and the effective departure of that stop and of every
\* earlier stop of the day as they were, and leaves the other days alone.
C7_ModeChangeFrame ==
  [][\A d \in Days : \A k \in Legs(d) :
       LET id == tripData[d].spots[k].id
       IN (CarLeg(id) /\ id \in DOMAIN transportModes' /\ transportModes'[id] = "walk") =>
            /\ \A j \in 1..k :
                 /\ tripData'[d].spots[j].time = tripData[d].spots[j].time
                 /\ tripData'[d].spots[j].isDeparted = tripData[d].spots[j].isDeparted
                 /\ DayTrace(rawKml'[d], dayStartTimes', actualDepartures', stays',
                             transportModes')[j].departureMinutes =
                      Trace(d)[j].departureMinutes
            /\ \A e \in Days \ {d} : tripData'[e] = tripData[e]]_vars

\* the leg of a stop that has earlier stops was switched to walking, and
\* the stop before it has been left by hand
C7_Witness ==
  \E d \in Days : \E k \in Legs(d) :
    /\ k >= 2
    /\ WalkLeg(tripData[d].spots[k].id)
    /\ tripData[d].spots[k - 1].isDeparted
    /\ tripData[d].spots[k].nextStop.navLink.travelmode = "walking"

\* the overrides day d is resolved from are the same after the step
DayInputsUnchanged(d) ==
  /\ Lookup(dayStartTimes', rawKml[d].dayId) = Lookup(dayStartTimes, rawKml[d].dayId)
  /\ \A k \in Stops(d) :
       LET id == SpotId(rawKml[d].dayId, k - 1)
       IN /\ Lookup(actualDepartures', id) = Lookup(actualDepartures, id)
          /\ Lookup(stays', id) = Lookup(stays, id)
          /\ Lookup(transportModes', id) = Lookup(transportModes, id)

\* C8: a change of the start time or of a stop override of one day leaves
\* the whole derived output of every other day unchanged.
C8_DaysIndependent ==
  [][\A d \in Days : DayInputsUnchanged(d) => tripData'[d] = tripData[d]]_vars

DayHasOverride(d) ==
  \/ HasStartOverride(rawKml[d].dayId)
  \/ \E k \in Stops(d) :
       LET id == SpotId(rawKml[d].dayId, k - 1)
       IN id \in DOMAIN actualDepartures \/ id \in DOMAIN stays \/ id \in DOMAIN transportModes

\* overrides were written for two different days, one of them a start time
C8_Witness ==
  \E d \in Days : \E e \in Days \ {d} :
    /\ HasStartOverride(rawKml[d].dayId)
    /\ tripData[d].spots[1].time # STR_0900
    /\ DayHasOverride(e)

\* the keys at which two maps differ
ChangedKeys(m1, m2) ==
  {k \in (DOMAIN m1) \cup (DOMAIN m2) : Lookup(m1, k) # Lookup(m2, k)}

C11_Scenario(d) ==
  /\ Len(tripData[d].spots) >= 2
  /\ tripData[d].spots[1].lat = 356895 /\ tripData[d].spots[1].lon = 1396917
  /\ tripData[d].spots[2].lat = 356586 /\ tripData[d].spots[2].lon = 1397454
  /\ ~HasStartOverride(tripData[d].dayId)
  /\ tripData[d].spots[1].time = STR_0900
  /\ tripData[d].spots[1].stay = STR_1_5_HR
  /\ CarLeg(tripData[d].spots[1].id)
  /\ ~tripData[d].spots[1].isDeparted

\* C11 (amended): in the end-to-end scenario the leg is 5.9 km long, stop
\* 0's effective departure is 10:30, the leg's travel minutes are
\* round(5.9/40*60) + 10 = 19 and the next stop's arrival is 10:49.
C11_ScenarioSchedule ==
  \A d \in Days :
    C11_Scenario(d) =>
      /\ tripData[d].spots[1].nextStop.distance = 59
      /\ Trace(d)[1].departureMinutes = 630
      /\ minutesToTimeStr(Trace(d)[1].departureMinutes) = ClockStr(10, 30)
      /\ Trace(d)[1].travelMinutes = 19
      /\ tripData[d].spots[1].nextArrivalTime = ClockStr(10, 49)
      /\ tripData[d].spots[2].time = ClockStr(10, 49)

\* C11 as stated: the leg takes 18 minutes and the next stop is reached at
\* 10:48.
C11_Original ==
  \A d \in Days :
    C11_Scenario(d) =>
      /\ Trace(d)[1].departureMinutes = 630
      /\ Trace(d)[1].travelMinutes = 18
      /\ tripData[d].spots[2].time = ClockStr(10, 48)

\* the scenario's day was recomputed after an edit elsewhere in the schedule
C11_Witness ==
  /\ edits > 0
  /\ \E d \in Days : C11_Scenario(d)

(***************************************************************************)
(* The App mounted over stored content: the persisted copies are whatever  *)
(* the browser's storage holds when the page loads.                        *)
(***************************************************************************)
\* a list of days with a day without stops and a day with a single stop
RawKmlSparse ==
  << [dayId |-> "d1", title |-> "Rest", spots |-> <<>>],
     [dayId |-> "d2", title |-> "Temple", spots |-> <<ZOJOJI>>] >>

\* window.RAW_KML_DATA at page load: absent (rawKml || []), sparse or full
RawKmlLoadChoices == RawKmlChoices \cup {<<>>, RawKmlSparse}

\* stored start times: well-formed, non-numeric, without minute part, empty
StoredStartTimes ==
  { ClockStr(8, 15), <<"a", "b", ":", "c", "d">>, <<"1", "2">>, <<>> }

\* stored departures: well-formed, non-numeric hour, without minute part
StoredDepartures ==
  { ClockStr(10, 5), <<"1", "x", ":", "3", "0">>, <<"1", "2">> }

\* stored stays: a selector value, a string without unit, a unit without number
StoredStays ==
  { <<"4", "5", " ", "m", "i", "n">>, <<"s", "o", "o", "n">>, <<"x", " ", "h", "r">> }

StoredModes == {"walk", "car"}

\* the maps with no entry or one entry at key
StoredMaps(key, vals) == {EmptyMap} \cup {Put(EmptyMap, key, v) : v \in vals}

\* the state after the first render of a page load
InitLoad ==
  /\ rawKml \in RawKmlLoadChoices
  /\ \E dst \in StoredMaps("d1", StoredStartTimes),
        ad  \in StoredMaps("d1-s0", StoredDepartures),
        st  \in StoredMaps("d1-s0", StoredStays),
        tm  \in StoredMaps("d1-s0", StoredModes) :
       /\ localStorage = Persisted(dst, ad, st, tm)
       /\ dayStartTimes = JSONparse(localStorage.start_times)
       /\ actualDepartures = JSONparse(localStorage.departures)
       /\ stays = JSONparse(localStorage.stays)
       /\ transportModes = JSONparse(localStorage.modes)
  /\ tripData = useItineraryCalculation(rawKml, dayStartTimes, actualDepartures, stays,
                                        transportModes)
  /\ edits = 0
  /\ fnName = ""
  /\ fnArg = <<>>
  /\ fnRes = 0
  /\ AuxIdle

NextLoad ==
  \/ Rerender
  \/ Reload

SpecLoad == InitLoad /\ [][NextLoad]_vars

\* a two-digit "HH:MM" string of a minute of the day
WellFormedTime(t) ==
  /\ Len(t) = 5
  /\ t[3] = ":"
  /\ \A i \in {1, 2, 4, 5} : IsDigit(t[i])
  /\ DigitsVal(SubSeq(t, 1, 2)) < 24
  /\ DigitsVal(SubSeq(t, 4, 5)) < 60

\* the time strings the engine parses: the start times of the schedule's
\* days and the actual departures of its stops
TimeOverrides ==
  {dayStartTimes[k] : k \in DOMAIN dayStartTimes \cap DayIds}
    \cup {actualDepartures[k] : k \in DOMAIN actualDepartures \cap SpotIds}

\* no stay of day d resolves to NaN
StaysParse(d) ==
  \A k \in Stops(d) : parseStayDuration(tripData[d].spots[k].stay) # NaN

\* C12: a malformed "HH:MM" start time or actual departure parses to 0
\* minutes, never to NaN, and every arrival time of a day (whose stays all
\* resolve to a number) is a well-formed two-digit "HH:MM" string.
C12_MalformedTimeIsZero ==
  /\ \A t \in TimeOverrides :
       /\ timeToMinutes(t) # NaN
       /\ ~WellFormedTime(t) => timeToMinutes(t) = 0
  /\ \A d \in Days :
       StaysParse(d) => \A k \in Stops(d) : WellFormedTime(tripData[d].spots[k].time)

\* the start-time override of day d is a well-formed "HH:MM" string
WellFormedStart(d) ==
  /\ rawKml[d].dayId \in DOMAIN dayStartTimes
  /\ WellFormedTime(dayStartTimes[rawKml[d].dayId])

\* C13: the running clock of every day starts at the start-time override
\* as minutes since midnight, and at 540 when the override is missing or
\* malformed.
C13_ClockInit ==
  \A d \in Days :
    StartMinutes(rawKml[d].dayId, dayStartTimes) =
      IF WellFormedStart(d)
      THEN LET t == dayStartTimes[rawKml[d].dayId]
           IN DigitsVal(SubSeq(t, 1, 2)) * 60 + DigitsVal(SubSeq(t, 4, 5))
      ELSE 540

\* C14: whatever the list of days and the stored overrides are (malformed
\* times, unknown stay strings, keys of no stop), the engine returns a
\* schedule with the same days in the same order and the same number of
\* stops per day.
C14_EngineTotal ==
  /\ Len(tripData) = Len(rawKml)
  /\ \A d \in Days :
       /\ tripData[d].dayId = rawKml[d].dayId
       /\ Len(tripData[d].spots) = Len(rawKml[d].spots)
       /\ \A k \in Stops(d) : tripData[d].spots[k].id = SpotId(rawKml[d].dayId, k - 1)

\* a schedule was returned for a day whose start time is malformed and
\* whose first stay is a unit without a number, next to a day with no
\* override at all
C14_Witness ==
  /\ \E d \in Days :
       /\ Len(tripData[d].spots) >= 2
       /\ StartMinutes(rawKml[d].dayId, dayStartTimes) = NaN
       /\ parseStayDuration(tripData[d].spots[1].stay) = NaN
       /\ tripData[d].spots[1].id \notin DOMAIN actualDepartures
  /\ \E e \in Days : rawKml[e].dayId \notin DOMAIN dayStartTimes

(***************************************************************************)
(* The clock helpers and the leg computation applied to numeric inputs.    *)
(***************************************************************************)
MaxClock == 2000

\* leg lengths in tenths of a km: none, short, around one hour on foot,
\* around one hour by car, long
DistProbes == {0, 3, 39, 40, 42, 59, 332, 400, 823}

InitNum ==
  /\ rawKml = RawKmlTokyo
  /\ dayStartTimes = EmptyMap
  /\ actualDepartures = EmptyMap
  /\ stays = EmptyMap
  /\ transportModes = EmptyMap
  /\ tripData = useItineraryCalculation(rawKml, EmptyMap, EmptyMap, EmptyMap, EmptyMap)
  /\ localStorage = Persisted(EmptyMap, EmptyMap, EmptyMap, EmptyMap)
  /\ edits = 0
  /\ fnName = ""
  /\ fnArg \in 0..MaxClock
  /\ fnRes = 0
  /\ AuxIdle

\* minutesToTimeStr(fnArg)
ApplyMinutesToTimeStr ==
  /\ fnName = ""
  /\ fnName' = "minutesToTimeStr"
  /\ fnRes' = minutesToTimeStr(fnArg)
  /\ UNCHANGED <<rawKml, overrides, tripData, localStorage, edits, fnArg, aux>>

\* day.spots.map over the first day, entered with the running clock fnArg
ApplyDayFrom ==
  /\ fnName = ""
  /\ fnName' = "dayFrom"
  /\ fnRes' = SpotsFrom(rawKml[1], 0, fnArg, actualDepartures, stays, transportModes)
  /\ UNCHANGED <<rawKml, overrides, tripData, localStorage, edits, fnArg, aux>>

\* the duration ternary on fnArg minutes
ApplyDurationStr ==
  /\ fnName = ""
  /\ fnName' = "DurationStr"
  /\ fnRes' = DurationStr(fnArg)
  /\ UNCHANGED <<rawKml, overrides, tripData, localStorage, edits, fnArg, aux>>

\* the nextStopInfo literal of a leg of fnArg tenths of a km
ApplyNextStopInfo(mode) ==
  /\ fnName = ""
  /\ fnArg \in DistProbes
  /\ fnName' = "nextStopInfo"
  /\ fnRes' = NextStopInfo(rawKml[1].spots[1], rawKml[1].spots[2], fnArg, mode)
  /\ UNCHANGED <<rawKml, overrides, tripData, localStorage, edits, fnArg, aux>>

NextNum ==
  \/ ApplyMinutesToTimeStr
  \/ ApplyDayFrom
  \/ ApplyDurationStr
  \/ \E mode \in {"car", "walk"} : ApplyNextStopInfo(mode)

SpecNum == InitNum /\ [][NextNum]_vars

\* the two digits of a number below 100
TwoDigits(n) == <<DigitChars[(n \div 10) + 1], DigitChars[(n % 10) + 1]>>

\* "HH:MM" of minute m of the day, hours and minutes counted separately
WrappedTimeStr(m) == TwoDigits((m \div 60) % 24) \o <<":">> \o TwoDigits(m % 60)

\* C15: a clock value m >= 0 is shown as "HH:MM" with hour floor(m/60) mod
\* 24 and minute m mod 60, and the clock itself is not reduced: a stop that
\* is entered at m is shown at m modulo 1440, and the next stop is entered
\* at m plus the stay and the leg, beyond 1440 too.
C15_ClockWraps ==
  /\ fnName = "minutesToTimeStr" =>
       /\ fnRes = WrappedTimeStr(fnArg)
       /\ timeToMinutes(fnRes) = fnArg % 1440
  /\ fnName = "dayFrom" =>
       \A k \in 1..Len(fnRes) :
         /\ fnRes[k].out.time = WrappedTimeStr(fnRes[k].arrival)
         /\ k = 1 => fnRes[k].arrival = fnArg
         /\ k > 1 => fnRes[k].arrival =
                       fnRes[k - 1].arrival + parseStayDuration(fnRes[k - 1].out.stay)
                         + fnRes[k - 1].travelMinutes
         /\ k > 1 => fnRes[k].arrival > fnArg

\* a day entered at minute 1500: its first stop shows "01:00" and the
\* later stops are entered after minute 1500
C15_Witness ==
  /\ fnName = "dayFrom"
  /\ fnArg = 1500
  /\ fnRes[1].out.time = ClockStr(1, 0)
  /\ Len(fnRes) = 3
  /\ fnRes[3].arrival > 1500 + 180

\* a duration as the claim formats it: "{H}h{M}m" from 60 minutes on
ClaimedDurationStr(mins) ==
  IF mins >= 60
  THEN NumToString(mins \div 60) \o <<"h">> \o NumToString(mins % 60) \o <<"m">>
  ELSE NumToString(mins) \o <<"m">>

\* C16: the drive-time and walk-time strings of a leg read "{H}h{M}m" for
\* every duration of 60 minutes or more (60 minutes reads "1h0m") and
\* "{M}m" for every duration below.
C16_DurationFormat ==
  /\ fnName = "DurationStr" => fnRes = ClaimedDurationStr(fnArg)
  /\ fnName = "nextStopInfo" =>
       /\ fnRes.driveTime = ClaimedDurationStr(Round(fnArg * 6, 40) + 10)
       /\ fnRes.walkTime = ClaimedDurationStr(Round(fnArg * 6, 4))

\* the minutes a duration string "{H}h{M}m" or "{M}m" stands for
DurationMinutes(s) ==
  IF \E i \in 1..Len(s) : s[i] = "h"
  THEN LET p == CHOOSE i \in 1..Len(s) : s[i] = "h"
       IN DigitsVal(SubSeq(s, 1, p - 1)) * 60 + DigitsVal(SubSeq(s, p + 1, Len(s) - 1))
  ELSE DigitsVal(SubSeq(s, 1, Len(s) - 1))

\* the display times of every leg are those of its distance, whatever its
\* mode, and the leg advances the clock by the one of its mode
C17_DisplayTimes ==
  \A d \in Days : \A k \in Legs(d) :
    LET spot == tripData[d].spots[k]
        used == IF CarLeg(spot.id) THEN spot.nextStop.driveTime ELSE spot.nextStop.walkTime
    IN /\ DurationMinutes(spot.nextStop.driveTime) = Round(spot.nextStop.distance * 6, 40) + 10
       /\ DurationMinutes(spot.nextStop.walkTime) = Round(spot.nextStop.distance * 6, 4)
       /\ Trace(d)[k].travelMinutes = DurationMinutes(used)
       /\ timeToMinutes(tripData[d].spots[k + 1].time) =
            (EffectiveDeparture(spot) + DurationMinutes(used)) % 1440

\* a step that changes the mode of a leg changes neither display time of it
C17_ToggleKeepsDisplayTimes ==
  \A d \in Days : \A k \in Legs(d) :
    LET id == tripData[d].spots[k].id
    IN Lookup(transportModes', id) # Lookup(transportModes, id) =>
         /\ tripData'[d].spots[k].nextStop.driveTime = tripData[d].spots[k].nextStop.driveTime
         /\ tripData'[d].spots[k].nextStop.walkTime = tripData[d].spots[k].nextStop.walkTime

\* C17: every non-last stop carries a display drive time of
\* round(dist/40*60)+10 minutes and a display walk time of round(dist/4*60)
\* minutes whatever its mode is, toggling its mode changes neither string,
\* and the clock advances by the display value of the selected mode.
C17_BothDisplayTimes ==
  []C17_DisplayTimes /\ [][C17_ToggleKeepsDisplayTimes]_vars

\* a leg was toggled to walking and back to car, and its two display times
\* differ
C17_Witness ==
  \E d \in Days : \E k \in Legs(d) :
    LET spot == tripData[d].spots[k]
    IN /\ spot.id \in DOMAIN transportModes
       /\ transportModes[spot.id] = "car"
       /\ spot.nextStop.driveTime # spot.nextStop.walkTime
       /\ DurationMinutes(spot.nextStop.walkTime) > 60

\* C18: a derived stop carries a next-stop record (name, distance, drive
\* and walk durations, navigation link) if and only if it is not the last
\* stop of its day; the last stop's record is null, it has no next arrival
\* and it leaves the running clock at its arrival.
C18_NextStopIffNotLast ==
  \A d \in Days : \A k \in Stops(d) :
    LET spot == tripData[d].spots[k]
        last == k = Len(tripData[d].spots)
    IN /\ (spot.nextStop # NullObj) <=> ~last
       /\ ~last =>
            /\ DOMAIN spot.nextStop = {"name", "distance", "driveTime", "walkTime", "navLink"}
            /\ spot.nextStop.name = tripData[d].spots[k + 1].name
            /\ spot.nextArrivalTime = tripData[d].spots[k + 1].time
       /\ last =>
            /\ spot.nextStop = NullObj
            /\ spot.nextArrivalTime = <<>>
            /\ Trace(d)[k].clock = Trace(d)[k].arrival

\* the last stop of a three-stop day has a stay and a departure of its own,
\* and the stop before it has a next-stop record
C18_Witness ==
  \E d \in Days :
    LET n == Len(tripData[d].spots)
    IN /\ n = 3
       /\ tripData[d].spots[n].id \in DOMAIN stays
       /\ tripData[d].spots[n].isDeparted
       /\ tripData[d].spots[n].nextStop = NullObj
       /\ tripData[d].spots[n - 1].nextStop # NullObj

\* the ids of the stops of the first and second day, by 0-based position
StopIdTable ==
  [d1 |-> <<"d1-s0", "d1-s1", "d1-s2">>,
   d2 |-> <<"d2-s0", "d2-s1", "d2-s2">>]

\* the number of stops of the days from d on
RECURSIVE StopCount(_)
StopCount(d) ==
  IF d > Len(tripData) THEN 0 ELSE Len(tripData[d].spots) + StopCount(d + 1)

\* C19: the id of every derived stop is "{dayId}-s{index}" with index its
\* 0-based position in its day, the ids of the schedule are pairwise
\* distinct, and the stay, the actual departure and the transport mode of
\* a stop are the entries of the override maps at exactly this id.
C19_StopIds ==
  /\ \A d \in Days : \A k \in Stops(d) :
       LET spot == tripData[d].spots[k]
       IN /\ spot.id = StopIdTable[tripData[d].dayId][k]
          /\ spot.stay = IF spot.id \in DOMAIN stays THEN stays[spot.id] ELSE STR_1_5_HR
          /\ spot.isDeparted <=> spot.id \in DOMAIN actualDepartures
          /\ spot.isDeparted => spot.actualDepTime = actualDepartures[spot.id]
          /\ k \in Legs(d) =>
               spot.nextStop.navLink.travelmode =
                 IF spot.id \in DOMAIN transportModes /\ transportModes[spot.id] = "walk"
                 THEN "walking" ELSE "driving"
  /\ Cardinality(SpotIds) = StopCount(1)

\* two stops at the same position of different days, one with a stay
\* override and the other one with a departure
C19_Witness ==
  /\ "d1-s1" \in DOMAIN stays
  /\ "d2-s1" \in DOMAIN actualDepartures
  /\ tripData[1].spots[2].stay # STR_1_5_HR
  /\ tripData[2].spots[2].isDeparted

\* every field of the record src is a field of out, with the same value
KeepsFields(src, out, fields) ==
  \A f \in fields : f \in DOMAIN out /\ out[f] = src[f]

\* C20: every emitted day keeps all its reference fields and the number
\* and order of its stops, and every derived stop keeps each reference
\* field of its source stop (name, lat, lon, ticket pricing, description)
\* with its value, next to the derived fields.
C20_ReferenceFieldsKept ==
  /\ Len(tripData) = Len(rawKml)
  /\ \A d \in Days :
       /\ KeepsFields(rawKml[d], tripData[d], DOMAIN rawKml[d] \ {"spots"})
       /\ Len(tripData[d].spots) = Len(rawKml[d].spots)
       /\ \A k \in Stops(d) :
            /\ KeepsFields(rawKml[d].spots[k], tripData[d].spots[k], DOMAIN rawKml[d].spots[k])
            /\ {"id", "time", "stay", "isDeparted", "nextStop"} \subseteq
                 DOMAIN tripData[d].spots[k]

\* a stop with ticket pricing and a description was recomputed with a stay
\* and a departure of its own
C20_Witness ==
  \E d \in Days : \E k \in Stops(d) :
    /\ {"ticket", "desc"} \subseteq DOMAIN rawKml[d].spots[k]
    /\ tripData[d].spots[k].id \in DOMAIN stays
    /\ tripData[d].spots[k].isDeparted
    /\ tripData[d].spots[k].ticket = rawKml[d].spots[k].ticket

\* C21: after any sequence of edits the schedule shown is the engine
\* applied from scratch to the current reference data and the current
\* four override maps: no write leaves a stale schedule on display.
C21_ScheduleIsFresh ==
  tripData = useItineraryCalculation(rawKml, dayStartTimes, actualDepartures, stays,
                                     transportModes)

\* two edits of different kinds were made, the second one a transport
\* toggle that moved a later arrival
C21_Witness ==
  /\ edits >= 2
  /\ DOMAIN dayStartTimes # {}
  /\ \E d \in Days : \E k \in Legs(d) :
       /\ WalkLeg(tripData[d].spots[k].id)
       /\ tripData[d].spots[k].nextStop.distance > 0
       /\ HasStartOverride(tripData[d].dayId)
       /\ tripData[d].spots[1].time # STR_0900

\* C22: each override map starts empty or as its persisted copy, and after
\* every mutation the persisted copy of each map is the in-memory map as
\* written, so that restoring it gives exactly the map held in memory.
C22_PersistedEqualsMemory ==
  /\ localStorage.start_times = JSONstringify(dayStartTimes)
  /\ localStorage.departures = JSONstringify(actualDepartures)
  /\ localStorage.stays = JSONstringify(stays)
  /\ localStorage.modes = JSONstringify(transportModes)
  /\ JSONparse(localStorage.start_times) = dayStartTimes
  /\ JSONparse(localStorage.departures) = actualDepartures
  /\ JSONparse(localStorage.stays) = stays
  /\ JSONparse(localStorage.modes) = transportModes
  /\ edits = 0 => \A m \in {dayStartTimes, actualDepartures, stays, transportModes} :
                    m = EmptyMap

\* two maps were written one after the other and both persisted copies
\* have the entry
C22_Witness ==
  /\ edits >= 2
  /\ localStorage.stays # {}
  /\ localStorage.modes # {}
  /\ JSONparse(localStorage.stays) = stays

(***************************************************************************)
(* getDistanceFromLatLonInKm applied to pairs of points.                   *)
(***************************************************************************)
\* the points the distance is taken between, as <<lat, lon>>
DistPoints ==
  {<<e[1], e[2]>> : e \in HaversineValues}

InitDist ==
  /\ rawKml = RawKmlTokyo
  /\ dayStartTimes = EmptyMap
  /\ actualDepartures = EmptyMap
  /\ stays = EmptyMap
  /\ transportModes = EmptyMap
  /\ tripData = useItineraryCalculation(rawKml, EmptyMap, EmptyMap, EmptyMap, EmptyMap)
  /\ localStorage = Persisted(EmptyMap, EmptyMap, EmptyMap, EmptyMap)
  /\ edits = 0
  /\ fnName = ""
  /\ fnArg \in DistPoints \X DistPoints
  /\ fnRes = 0
  /\ AuxIdle

\* getDistanceFromLatLonInKm from the first point of fnArg to the second
\* (forth) and from the second to the first (back)
ApplyGetDistance ==
  /\ fnName = ""
  /\ fnName' = "getDistanceFromLatLonInKm"
  /\ fnRes' = [forth |-> getDistanceFromLatLonInKm(fnArg[1][1], fnArg[1][2],
                                                    fnArg[2][1], fnArg[2][2]),
               back  |-> getDistanceFromLatLonInKm(fnArg[2][1], fnArg[2][2],
                                                    fnArg[1][1], fnArg[1][2])]
  /\ UNCHANGED <<rawKml, overrides, tripData, localStorage, edits, fnArg, aux>>

NextDist == ApplyGetDistance

SpecDist == InitDist /\ [][NextDist]_vars

\* C23: the distance from A to B, rounded to one decimal, is the distance
\* from B to A, for all points A and B.
C23_DistanceSymmetric ==
  fnName = "getDistanceFromLatLonInKm" => fnRes.forth = fnRes.back

\* the distance between two points of different hemispheres was taken in
\* both directions
C23_Witness ==
  /\ fnName = "getDistanceFromLatLonInKm"
  /\ fnArg[1][1] > 0 /\ fnArg[2][1] < 0
  /\ fnRes.forth > 0
  /\ fnRes.forth # NaN

\* C24: the navigation link of every non-last stop goes from the stop's
\* coordinates to the next stop's coordinates, by "driving" exactly when
\* the stop's mode is car (set to car or not set) and by "walking" exactly
\* when it is walk.
C24_NavigationLink ==
  \A d \in Days : \A k \in Legs(d) :
    LET link == tripData[d].spots[k].nextStop.navLink
        id   == tripData[d].spots[k].id
    IN /\ link.origin = <<rawKml[d].spots[k].lat, rawKml[d].spots[k].lon>>
       /\ link.destination = <<rawKml[d].spots[k + 1].lat, rawKml[d].spots[k + 1].lon>>
       /\ link.travelmode \in {"driving", "walking"}
       /\ link.travelmode = "driving" <=> CarLeg(id)
       /\ link.travelmode = "walking" <=> WalkLeg(id)

\* a day with a leg that was toggled to walking next to a leg that is driven
C24_Witness ==
  \E d \in Days : \E k \in Legs(d) : \E j \in Legs(d) :
    /\ tripData[d].spots[j].id \in DOMAIN transportModes
    /\ tripData[d].spots[k].nextStop.navLink.travelmode = "driving"
    /\ tripData[d].spots[j].nextStop.navLink.travelmode = "walking"
    /\ tripData[d].spots[j].nextStop.navLink.origin #
         tripData[d].spots[j].nextStop.navLink.destination

\* the step leaves the inputs of day d from the departure of stop j on as
\* they are: the departure of j, the modes from j on, and the stays and
\* departures after j
DownstreamInputsUnchanged(d, j) ==
  /\ \A k \in j..Len(tripData[d].spots) :
       LET id == tripData[d].spots[k].id
       IN /\ Lookup(transportModes', id) = Lookup(transportModes, id)
          /\ Lookup(actualDepartures', id) = Lookup(actualDepartures, id)
          /\ k > j => Lookup(stays', id) = Lookup(stays, id)

\* C25: while stop j of a day has an actual departure, a change of the
\* day's start time, of a stay at or before j, or of a mode or departure
\* before j leaves the arrival time of every stop after j as it was.
C25_DepartureCutsUpstream ==
  [][\A d \in Days : \A j \in Stops(d) :
       (/\ tripData[d].spots[j].id \in DOMAIN actualDepartures
        /\ DownstreamInputsUnchanged(d, j)) =>
         \A k \in (j + 1)..Len(tripData[d].spots) :
           tripData'[d].spots[k].time = tripData[d].spots[k].time]_vars

\* a day whose start time was moved and whose first stop has been left by
\* hand before the time it is now reached
C25_Witness ==
  \E d \in Days :
    /\ Len(tripData[d].spots) >= 2
    /\ HasStartOverride(tripData[d].dayId)
    /\ tripData[d].spots[1].isDeparted
    /\ timeToMinutes(tripData[d].spots[1].actualDepTime) <
         timeToMinutes(tripData[d].spots[1].time)

\* C26 (amended): a stop without an actual departure is left at its arrival
\* plus its stay, never before it is reached (when both are numbers), and
\* every leg takes the clock forward from the effective departure; a stop
\* with an actual departure is left at that time, be it before its arrival.
C26_ClockForwardUnlessOverridden ==
  \A d \in Days : \A k \in Stops(d) :
    LET step == Trace(d)[k]
        spot == tripData[d].spots[k]
    IN /\ (~spot.isDeparted /\ step.arrival # NaN /\ parseStayDuration(spot.stay) # NaN) =>
            /\ step.departureMinutes = step.arrival + parseStayDuration(spot.stay)
            /\ step.departureMinutes >= step.arrival
       /\ spot.isDeparted => step.departureMinutes = timeToMinutes(spot.actualDepTime)
       /\ (k \in Legs(d) /\ step.departureMinutes # NaN /\ step.travelMinutes # NaN) =>
            Trace(d)[k + 1].arrival >= step.departureMinutes

\* C26 as stated: at every stop, with or without an actual departure, the
\* effective departure is not before the arrival, so the arrivals of a day
\* never decrease.
C26_Original ==
  \A d \in Days : \A k \in Stops(d) :
    /\ Trace(d)[k].departureMinutes >= Trace(d)[k].arrival
    /\ k \in Legs(d) => Trace(d)[k + 1].arrival >= Trace(d)[k].arrival

\* a stop was left by hand before the time it is reached, and a later stop
\* of the day is left after its stay
C26_Witness ==
  \E d \in Days : \E k \in Legs(d) :
    /\ tripData[d].spots[k].isDeparted
    /\ Trace(d)[k].departureMinutes < Trace(d)[k].arrival
    /\ ~tripData[d].spots[k + 1].isDeparted
    /\ Trace(d)[k + 1].arrival < Trace(d)[k].arrival

(***************************************************************************)
(* The ticket counters of the stops that sell tickets (App, section 4).    *)
(***************************************************************************)
MaxTickets == 4

Max0(n) == IF n < 0 THEN 0 ELSE n

\* p[id] || { adult: 2, child: 2 }
getTicketCounts(p, id) == IF id \in DOMAIN p THEN p[id] ELSE [adult |-> 2, child |-> 2]

\* p[id]?.[type] || 2: a stored count of 0 is falsy
StoredCountOr2(p, id, type) ==
  IF id \in DOMAIN p /\ p[id][type] # 0 THEN p[id][type] ELSE 2

\* the ids of the rendered stops that show the ticket counters (spot.ticket)
TicketIds ==
  UNION {{tripData[d].spots[k].id :
            k \in {j \in 1..Len(tripData[d].spots) : tripData[d].spots[j].ticket # NullObj}} :
         d \in 1..Len(tripData)}

\* the state after the first render, the spot_tickets effect included
InitTickets ==
  /\ rawKml \in RawKmlChoices
  /\ dayStartTimes = EmptyMap
  /\ actualDepartures = EmptyMap
  /\ stays = EmptyMap
  /\ transportModes = EmptyMap
  /\ tripData = useItineraryCalculation(rawKml, EmptyMap, EmptyMap, EmptyMap, EmptyMap)
  /\ localStorage = Spread(Persisted(EmptyMap, EmptyMap, EmptyMap, EmptyMap),
                           [spot_tickets |-> {}])
  /\ edits = 0
  /\ fnName = ""
  /\ fnArg = <<>>
  /\ fnRes = 0
  /\ TicketsIdle
  /\ geminiKey = FALSE
  /\ GeminiIdle
  /\ SwIdle

\* setSpotTicketCounts((p) => ...) with the render and the effect that follow
updateSpotTicketCount(id, type, delta) ==
  LET count == Max0(StoredCountOr2(spotTicketCounts, id, type) + delta)
  IN /\ count <= MaxTickets
     /\ spotTicketCounts' =
          Put(spotTicketCounts, id,
              [getTicketCounts(spotTicketCounts, id) EXCEPT ![type] = count])
     /\ ticketCall' = [id |-> id, type |-> type, delta |-> delta]
     /\ localStorage' = Spread(localStorage,
                               [spot_tickets |-> JSONstringify(spotTicketCounts')])
     /\ UNCHANGED <<rawKml, overrides, tripData, edits, harness, gemini, sw>>

NextTickets ==
  \E id \in TicketIds, type \in {"adult", "child"}, delta \in {1, -1} :
    updateSpotTicketCount(id, type, delta)

SpecTickets == InitTickets /\ [][NextTickets]_vars

\* the count of a type at a stop: the stored one, 2 when none is stored
TicketCount(p, id, type) == IF id \in DOMAIN p THEN p[id][type] ELSE 2

\* C27: updateSpotTicketCount(id, type, delta) sets the count of that type
\* at that stop to max(0, current + delta), current being the stored count
\* or 2 when none is stored, and leaves every other count as it was; every
\* count stays >= 0 and moves by at most 1.
C27_TicketUpdate ==
  [][LET c == ticketCall'
     IN \A id \in TicketIds : \A type \in {"adult", "child"} :
          LET old == TicketCount(spotTicketCounts, id, type)
              new == TicketCount(spotTicketCounts', id, type)
          IN /\ new >= 0
             /\ new - old \in {-1, 0, 1}
             /\ new = IF id = c.id /\ type = c.type THEN Max0(old + c.delta) ELSE old]_vars

(***************************************************************************)
(* generateGeminiContent (src/app.js, section 1): one call, request by     *)
(* request.                                                                *)
(***************************************************************************)
\* what a request can come to: a body with text, a body without candidates,
\* a body that is not JSON, HTTP 429, another HTTP error, no response
GeminiResponses == {"ok_text", "ok_empty", "ok_badjson", "http_429", "http_500", "network"}

\* the variables a call leaves alone
outsideGemini == <<rawKml, overrides, tripData, localStorage, edits, harness, tickets, sw>>

InitGemini ==
  /\ rawKml = RawKmlTokyo
  /\ dayStartTimes = EmptyMap
  /\ actualDepartures = EmptyMap
  /\ stays = EmptyMap
  /\ transportModes = EmptyMap
  /\ tripData = useItineraryCalculation(rawKml, EmptyMap, EmptyMap, EmptyMap, EmptyMap)
  /\ localStorage = Persisted(EmptyMap, EmptyMap, EmptyMap, EmptyMap)
  /\ edits = 0
  /\ fnName = ""
  /\ fnArg = <<>>
  /\ fnRes = 0
  /\ TicketsIdle
  /\ geminiKey \in BOOLEAN
  /\ GeminiIdle
  /\ SwIdle

\* the call up to the loop: if (!apiKey) throw new Error("NO_API_KEY")
GeminiCall ==
  /\ geminiPc = "idle"
  /\ IF geminiKey
     THEN geminiPc' = "loop" /\ geminiResult' = geminiResult
     ELSE geminiPc' = "thrown" /\ geminiResult' = "NO_API_KEY"
  /\ UNCHANGED <<geminiKey, geminiI, geminiLog, outsideGemini>>

\* for (...; i < 3; ...): enter the body, or fall out of the function
GeminiLoop ==
  /\ geminiPc = "loop"
  /\ IF geminiI < 3
     THEN geminiPc' = "fetch" /\ geminiResult' = geminiResult
     ELSE geminiPc' = "returned" /\ geminiResult' = "undefined"
  /\ UNCHANGED <<geminiKey, geminiI, geminiLog, outsideGemini>>

\* a 429 that is retried in the last round too
Retry429_always(i) == i < 3

\* response.status === 429 && i < 2
Retry429(i) == i < 2

\* catch (error) { if (i === 2) throw error; await sleep } for error name
GeminiCatch(name) ==
  IF geminiI = 2
  THEN geminiPc' = "thrown" /\ geminiResult' = name
  ELSE geminiPc' = "sleep" /\ geminiResult' = geminiResult

\* await fetch(...) settles as resp, and the body of the try up to the next
\* await of a timer, return or throw
GeminiFetch(resp) ==
  /\ geminiPc = "fetch"
  /\ geminiLog' = Append(geminiLog, resp)
  /\ CASE resp = "ok_text"    -> geminiPc' = "returned" /\ geminiResult' = "text"
       [] resp = "ok_empty"   -> geminiPc' = "returned" /\ geminiResult' = "no content"
       [] resp = "ok_badjson" -> GeminiCatch("SyntaxError")
       [] resp = "http_429"   -> IF Retry429(geminiI)
                                 THEN geminiPc' = "sleep" /\ geminiResult' = geminiResult
                                 ELSE GeminiCatch("API Error: 429")
       [] resp = "http_500"   -> GeminiCatch("API Error: 500")
       [] resp = "network"    -> GeminiCatch("TypeError")
  /\ UNCHANGED <<geminiKey, geminiI, outsideGemini>>

\* the timer fires: continue, or the end of the catch block, then i++
GeminiWake ==
  /\ geminiPc = "sleep"
  /\ geminiPc' = "loop"
  /\ geminiI' = geminiI + 1
  /\ UNCHANGED <<geminiKey, geminiLog, geminiResult, outsideGemini>>

NextGemini ==
  \/ GeminiCall
  \/ GeminiLoop
  \/ \E resp \in GeminiResponses : GeminiFetch(resp)
  \/ GeminiWake

\* every request is answered or fails, and every timer fires
SpecGemini == InitGemini /\ [][NextGemini]_vars /\ WF_vars(NextGemini)

GeminiDone == geminiPc \in {"returned", "thrown"}

\* at most 3 requests, none after a successful response, and an ended call
\* has returned a text or thrown an error
GeminiSafe ==
  /\ Len(geminiLog) <= 3
  /\ \A k \in 1..(Len(geminiLog) - 1) : geminiLog[k] \notin {"ok_text", "ok_empty"}
  /\ geminiPc = "returned" => geminiResult \in {"text", "no content"}
  /\ geminiPc = "thrown" => geminiResult \notin {"", "undefined"}
  /\ GeminiDone /\ geminiKey => Len(geminiLog) >= 1

\* C28: a call of generateGeminiContent with a stored key ends after at
\* most 3 requests whatever the responses are; it returns a text or throws
\* an error, never falls out of the loop with an undefined result, and
\* sends no request after a successful response.
C28_GeminiTerminates ==
  []GeminiSafe /\ (geminiKey => <>GeminiDone)

\* a call answered by HTTP 429 twice and then by a body with text
C28_Witness ==
  /\ geminiKey
  /\ geminiLog = <<"http_429", "http_429", "ok_text">>
  /\ geminiPc = "returned"
  /\ geminiResult = "text"

(***************************************************************************)
(* The service worker (src/service-worker.js): install, activate, fetch.   *)
(***************************************************************************)
CACHE_NAME == "tokyo-trip-v1"

ASSETS_TO_CACHE ==
  { "./", "./index.html", "./app.js", "./logo.jpg", "./icon-192.png",
    "./icon-512.png",
    "https://unpkg.com/react@18/umd/react.production.min.js",
    "https://unpkg.com/react-dom@18/umd/react-dom.production.min.js",
    "https://unpkg.com/@babel/standalone/babel.min.js",
    "https://cdn.tailwindcss.com",
    "https://cdn.jsdelivr.net/npm/marked/marked.min.js",
    "https://cdn.jsdelivr.net/npm/@emailjs/browser@3/dist/email.min.js",
    "https://fonts.googleapis.com/css2?family=Noto+Sans+TC" }

\* the intercepted requests handled in one run
MaxFetches == 2

\* caches an earlier version of the worker or the page can have left behind
LeftoverCaches ==
  { [name |-> n, urls |-> u] :
      n \in {"tokyo-trip-v0", "images"},
      u \in {{"./"}, {"./", "./old.css"}} }
  \cup { [name |-> CACHE_NAME, urls |-> {"./", "./logo-old.jpg"}] }

\* cache storage before the worker is installed: leftovers with distinct
\* names, in any order of creation
InitialStorages ==
  { cs \in UNION { [1..n -> LeftoverCaches] : n \in 0..3 } :
      \A a, b \in 1..Len(cs) : a # b => cs[a].name # cs[b].name }

\* the requests the pages send: assets, a file of an old cache, a file only
\* an earlier current cache holds, the Gemini API
Requests ==
  { "./", "./app.js", "./old.css", "./logo-old.jpg",
    "https://generativelanguage.googleapis.com/" }

\* caches.keys()
cachesKeys(cs) == [k \in 1..Len(cs) |-> cs[k].name]

\* caches.open(name): the cache of that name, created last if there is none
cachesOpen(cs, name) ==
  IF \E k \in 1..Len(cs) : cs[k].name = name
  THEN cs
  ELSE Append(cs, [name |-> name, urls |-> {}])

\* cache.addAll(urls) on the cache called name
cacheAddAll(cs, name, urls) ==
  [k \in 1..Len(cs) |->
     IF cs[k].name = name
     THEN [name |-> name, urls |-> cs[k].urls \cup urls]
     ELSE cs[k]]

RECURSIVE Without(_, _)
Without(cs, name) ==
  IF cs = <<>> THEN <<>>
  ELSE IF Head(cs).name = name THEN Without(Tail(cs), name)
  ELSE <<Head(cs)>> \o Without(Tail(cs), name)

\* caches.delete(name)
cachesDelete(cs, name) == Without(cs, name)

\* caches.match(request): the response of the first cache, in creation
\* order, that holds the request, named by its cache; "undefined" if none
cachesMatch(cs, request) ==
  IF \E k \in 1..Len(cs) : request \in cs[k].urls
  THEN LET first == CHOOSE k \in 1..Len(cs) :
                      /\ request \in cs[k].urls
                      /\ \A j \in 1..(k - 1) : request \notin cs[j].urls
       IN cs[first].name
  ELSE "undefined"

\* the variables the service worker leaves alone
outsideSw == <<rawKml, overrides, tripData, localStorage, edits, harness, tickets, gemini>>

InitSw ==
  /\ rawKml = RawKmlTokyo
  /\ dayStartTimes = EmptyMap
  /\ actualDepartures = EmptyMap
  /\ stays = EmptyMap
  /\ transportModes = EmptyMap
  /\ tripData = useItineraryCalculation(rawKml, EmptyMap, EmptyMap, EmptyMap, EmptyMap)
  /\ localStorage = Persisted(EmptyMap, EmptyMap, EmptyMap, EmptyMap)
  /\ edits = 0
  /\ fnName = ""
  /\ fnArg = <<>>
  /\ fnRes = 0
  /\ TicketsIdle
  /\ geminiKey = FALSE
  /\ GeminiIdle
  /\ swPhase = "installing"
  /\ cacheStorage \in InitialStorages
  /\ swPending = {}
  /\ fetchLog = <<>>
  /\ netLog = <<>>

\* install: caches.open(CACHE_NAME).then(cache => cache.addAll(ASSETS_TO_CACHE));
\* addAll stores all the assets, or none when one of them cannot be
\* fetched, and then the worker is discarded
SwInstall(ok) ==
  /\ swPhase = "installing"
  /\ IF ok
     THEN /\ cacheStorage' = cacheAddAll(cachesOpen(cacheStorage, CACHE_NAME),
                                         CACHE_NAME, ASSETS_TO_CACHE)
          /\ swPhase' = "installed"
     ELSE /\ cacheStorage' = cachesOpen(cacheStorage, CACHE_NAME)
          /\ swPhase' = "redundant"
  /\ UNCHANGED <<swPending, fetchLog, netLog, outsideSw>>

\* a handler that requests the deletion of every key
KeysToDelete_all(keyList) ==
  { keyList[k] : k \in 1..Len(keyList) }

\* keyList.map(key => { if (key !== CACHE_NAME) return caches.delete(key) }):
\* the keys whose deletion is requested
KeysToDelete(keyList) ==
  { keyList[k] : k \in { j \in 1..Len(keyList) : keyList[j] # CACHE_NAME } }

\* activate: caches.keys() settles and the deletions are requested
SwActivate ==
  /\ swPhase = "installed"
  /\ swPhase' = "activating"
  /\ swPending' = KeysToDelete(cachesKeys(cacheStorage))
  /\ UNCHANGED <<cacheStorage, fetchLog, netLog, outsideSw>>

\* one caches.delete(key) settles
SwDelete(key) ==
  /\ swPhase = "activating"
  /\ key \in swPending
  /\ cacheStorage' = cachesDelete(cacheStorage, key)
  /\ swPending' = swPending \ {key}
  /\ UNCHANGED <<swPhase, fetchLog, netLog, outsideSw>>

\* Promise.all settles: the work of the activate handler has completed
SwActivated ==
  /\ swPhase = "activating"
  /\ swPending = {}
  /\ swPhase' = "activated"
  /\ UNCHANGED <<cacheStorage, swPending, fetchLog, netLog, outsideSw>>

\* a handler that asks the network first and answers from it
RespondWith_networkFirst(response, request) ==
  [from |-> "network", sent |-> <<request>>]

\* response || fetch(event.request): where the response comes from and the
\* requests sent to the network
RespondWith(response, request) ==
  IF response # "undefined"
  THEN [from |-> response, sent |-> <<>>]
  ELSE [from |-> "network", sent |-> <<request>>]

\* fetch: event.respondWith(caches.match(event.request).then(...))
SwFetch(request) ==
  /\ swPhase = "activated"
  /\ Len(fetchLog) < MaxFetches
  /\ LET r == RespondWith(cachesMatch(cacheStorage, request), request)
     IN /\ fetchLog' = Append(fetchLog, [request |-> request, from |-> r.from])
        /\ netLog' = netLog \o r.sent
  /\ UNCHANGED <<swPhase, cacheStorage, swPending, outsideSw>>

NextSw ==
  \/ \E ok \in BOOLEAN : SwInstall(ok)
  \/ SwActivate
  \/ \E key \in swPending : SwDelete(key)
  \/ SwActivated
  \/ \E request \in Requests : SwFetch(request)

SpecSw == InitSw /\ [][NextSw]_vars

\* the names of the caches in storage
CacheNames(cs) == { cs[k].name : k \in 1..Len(cs) }

\* the cache called name, as it is in storage
CacheCalled(cs, name) == { cs[k] : k \in { j \in 1..Len(cs) : cs[j].name = name } }

\* C29: once the work of the activate handler has completed, the only
\* cache in cache storage is the one named CACHE_NAME: every cache of
\* another name has been deleted, and no step of the worker deletes the
\* current cache or takes an entry out of it.
C29_ActivateClearsOldCaches ==
  /\ [](swPhase = "activated" => CacheNames(cacheStorage) = {CACHE_NAME})
  /\ [][ \A c \in CacheCalled(cacheStorage, CACHE_NAME) :
           \E c2 \in CacheCalled(cacheStorage', CACHE_NAME) :
             c.urls \subseteq c2.urls ]_vars

\* activation has completed over a storage that held two old caches and
\* an earlier current cache, whose entry is still there
C29_Witness ==
  /\ swPhase = "activated"
  /\ cachesKeys(cacheStorage) = <<CACHE_NAME>>
  /\ "./logo-old.jpg" \in cacheStorage[1].urls
  /\ ASSETS_TO_CACHE \subseteq cacheStorage[1].urls

\* some cache in storage holds the request
Cached(cs, request) == \E k \in 1..Len(cs) : request \in cs[k].urls

\* C30: the fetch handler is cache-first: a request that some cache holds
\* is answered from a cache that holds it and nothing is sent to the
\* network; a request that no cache holds is sent to the network, once;
\* and handling a request never changes cache storage.
C30_CacheFirst ==
  [][ Len(fetchLog') = Len(fetchLog) + 1 =>
        LET e == fetchLog'[Len(fetchLog')]
        IN /\ Cached(cacheStorage, e.request) =>
                /\ netLog' = netLog
                /\ \E c \in CacheCalled(cacheStorage, e.from) : e.request \in c.urls
           /\ ~Cached(cacheStorage, e.request) =>
                /\ netLog' = Append(netLog, e.request)
                /\ e.from = "network"
           /\ cacheStorage' = cacheStorage ]_vars

\* an asset answered from the current cache, then a file of a deleted old
\* cache fetched from the network
C30_Witness ==
  /\ fetchLog = << [request |-> "./app.js", from |-> CACHE_NAME],
                   [request |-> "./old.css", from |-> "network"] >>
  /\ netLog = << "./old.css" >>

====
